---- MODULE Spec2Model ----
(***************************************************************************)
(* The POST /api handler of src/app.py (handle_task) as a state machine.   *)
(* Every request walks the handler's statements in order.  A step is a     *)
(* group of statements with one access to what requests share (the         *)
(* ./repos tree, the git repositories, the hosting platform, the callback  *)
(* endpoint), so that the steps of requests in flight interleave; reading  *)
(* the body, comparing the secret and calling the model service touch      *)
(* nothing shared and are joined to the step that follows or precedes.     *)
(* The hosting platform, the model service and the callback endpoint are   *)
(* the environment: their answers are chosen nondeterministically among    *)
(* the answers they can give in their state.  The hosting API and the      *)
(* callback always answer with an HTTP status; a transport failure is      *)
(* modelled for the model service only.                                    *)
(*                                                                         *)
(* Three specifications share the steps: Spec (requests without            *)
(* attachments, interleaved), SpecAttach (requests with attachments,       *)
(* interleaved) and SpecSingle (one request with more attachments).        *)
(***************************************************************************)
EXTENDS Integers, Sequences, FiniteSets, TLC

\* ---------------------------------------------------------------- bounds
NumReq == 2          \* requests the service receives
MaxAtt == 1          \* attachments per request, requests running concurrently
MaxAttSingle == 3    \* attachments per request, one request alone

Reqs == 1..NumReq

\* ---------------------------------------------------------------- inputs
STUDENT_SECRET == "s3cret"
Secrets == {"s3cret", "wrong"}
Tasks == {"demo1", "demo2"}
Briefs == {"Build X"}
Checks == <<"a", "b">>

\* File names inside a workspace directory.
Names == {"hello.txt", "data.csv", "broken.bin", "logo.png",
          "index.html", "README.md", "LICENSE"}

\* An attachment name is joined to the workspace path verbatim: dir "." is a
\* plain file name, dir t is the name "../t/<base>".
PlainName(b) == [dir |-> ".", base |-> b]
UpName(t, b) == [dir |-> t, base |-> b]

\* A URL is its scheme prefix and the pieces url.split(",", 1) yields after it.
DataUrl(parts) == [scheme |-> "data:", parts |-> parts]
HelloUrl == DataUrl(<<"text/plain;base64", "SGVsbG8=">>)
CsvUrl == DataUrl(<<"text/csv;base64", "c2FsZXMKMTAKMjAuNQo=">>)
BadPaddingUrl == DataUrl(<<"text/plain;base64", "SGVsbG8">>)
NoCommaUrl == DataUrl(<<"text/plain;base64;SGVsbG8=">>)
HttpsUrl == [scheme |-> "https:", parts |-> <<"//example.com/logo.png">>]

Attachments ==
    { [name |-> PlainName("hello.txt"), url |-> HelloUrl],
      [name |-> PlainName("data.csv"), url |-> CsvUrl],
      [name |-> PlainName("logo.png"), url |-> HttpsUrl],
      [name |-> PlainName("broken.bin"), url |-> BadPaddingUrl],
      [name |-> PlainName("broken.bin"), url |-> NoCommaUrl] }
    \cup { [name |-> UpName(t, "index.html"), url |-> HelloUrl] : t \in Tasks }

RECURSIVE SeqsUpTo(_, _)
SeqsUpTo(S, n) ==
    IF n = 0 THEN {<<>>}
    ELSE LET shorter == SeqsUpTo(S, n - 1)
         IN shorter \cup {Append(s, x) : s \in {q \in shorter : Len(q) = n - 1}, x \in S}

TaskRequest(maxAtt) ==
    [secret : Secrets, task : Tasks, brief : Briefs,
     attachments : SeqsUpTo(Attachments, maxAtt)]

NoRequest == [secret |-> "", task |-> "", brief |-> "", attachments |-> <<>>]

\* ---------------------------------------------------------------- helpers
\* Variant: the scheme test dropped, every attachment is decoded.
StartsWithDataAlways(url) == TRUE

\* att.url.startswith("data:")
StartsWithData(url) == url.scheme = "data:"

\* base64.b64decode: file contents are sequences of lines; <<"!error">> stands
\* for binascii.Error (incorrect padding).
B64Decode(payload) ==
    CASE payload = "SGVsbG8=" -> <<"Hello">>
      [] payload = "c2FsZXMKMTAKMjAuNQo=" -> <<"sales", "10", "20.5">>
      [] OTHER -> <<"!error">>

\* base64.b64decode(att.url.split(",", 1)[1]): IndexError without a comma.
DecodeUrl(url) ==
    IF Len(url.parts) < 2 THEN <<"!error">> ELSE B64Decode(url.parts[2])

\* os.path.join(folder, att.name), as the directory under ./repos it names.
JoinDir(task, name) == IF name.dir = "." THEN task ELSE name.dir

NoFile == [data |-> <<>>, by |-> 0]
File(data, r) == [data |-> data, by |-> r]

ReadmeText(task, brief, checks) ==
    <<"# ", task, brief, "## Checks">>
    \o [i \in 1..Len(checks) |-> "- " ] \o checks
    \o <<"## License", "MIT">>
LicenseText == <<"MIT License", "Permission is hereby granted...">>

Ev(act, status, flag) == [act |-> act, status |-> status, flag |-> flag]
NoResponse == [status |-> 0, detail |-> ""]
HttpError(status, detail) == [status |-> status, detail |-> detail]
\* An exception handle_task does not catch: the framework answers 500.
Unhandled == HttpError(500, "Internal Server Error")

\* ---------------------------------------------------------------- state
VARIABLES
    pc,         \* per request: the statement it is at
    req,        \* per request: the TaskRequest body
    retry,      \* per request: on arrival, an earlier request for its task had succeeded
    idx,        \* per request: position of the attachment loop
    prompt,     \* per request: the text handed to call_llm
    code,       \* per request: the text call_llm returned
    commit_sha, \* per request: the output of git rev-parse HEAD
    resp,       \* per request: the HTTP response
    trace,      \* per request: the external actions it performed, in order
    attWritten, \* per request: attachment names its loop wrote a file for
    dirs,       \* ./repos: the workspace directories that exist
    files,      \* ./repos/<task>/<name>: content and last writer
    repo,       \* ./repos/<task>/.git: inited, HEAD, origin, HEAD's tree
    parent,     \* commit graph: each commit's parent (0: none)
    remote,     \* hosting platform: per name, exists, main, pages
    callbacks   \* the payloads POSTed to evaluation_url

vars == <<pc, req, retry, idx, prompt, code, commit_sha, resp, trace, attWritten,
          dirs, files, repo, parent, remote, callbacks>>

local == <<idx, prompt, code, commit_sha, attWritten>>
disk == <<dirs, files, repo, parent>>
world == <<dirs, files, repo, parent, remote, callbacks>>

\* A commit of another origin, already on the hosting platform.
ForeignCommit == NumReq + 1
Commits == Reqs \cup {ForeignCommit}

EmptyTree == [n \in Names |-> <<>>]
NoRemote == [exists |-> FALSE, main |-> 0, pages |-> FALSE]
ForeignRemote == [exists |-> TRUE, main |-> ForeignCommit, pages |-> TRUE]

\* The repository names that may be taken on the platform before the service
\* starts: none, or "demo2" (the tasks are alike, one of them is enough).
TakenNames == {{}, {"demo2"}}

Init ==
    /\ pc = [r \in Reqs |-> "idle"]
    /\ req = [r \in Reqs |-> NoRequest]
    /\ retry = [r \in Reqs |-> FALSE]
    /\ idx = [r \in Reqs |-> 1]
    /\ prompt = [r \in Reqs |-> [brief |-> "", appended |-> <<>>]]
    /\ code = [r \in Reqs |-> ""]
    /\ commit_sha = [r \in Reqs |-> 0]
    /\ resp = [r \in Reqs |-> NoResponse]
    /\ trace = [r \in Reqs |-> <<>>]
    /\ attWritten = [r \in Reqs |-> {}]
    /\ dirs = {}
    /\ files = [t \in Tasks |-> [n \in Names |-> NoFile]]
    /\ repo = [t \in Tasks |->
                 [inited |-> FALSE, head |-> 0, origin |-> FALSE, tree |-> EmptyTree]]
    /\ parent = [c \in Commits |-> 0]
    /\ remote \in {[t \in Tasks |-> IF t \in taken THEN ForeignRemote ELSE NoRemote] :
                    taken \in TakenNames}
    /\ callbacks = {}

Finish(r, response) ==
    /\ pc' = [pc EXCEPT ![r] = "done"]
    /\ resp' = [resp EXCEPT ![r] = response]

Goto(r, label) ==
    /\ pc' = [pc EXCEPT ![r] = label]
    /\ UNCHANGED resp

Log(r, ev) == trace' = [trace EXCEPT ![r] = Append(@, ev)]

\* ---------------------------------------------------------------- handler
Succeeded(q) == pc[q] = "done" /\ resp[q] = [status |-> 200, detail |-> "done"]

\* Variant: the workspace is made before the secret is compared.
AuthenticateLate(r, body) ==
    IF body.secret # STUDENT_SECRET
    THEN /\ Finish(r, HttpError(403, "Invalid secret"))
         /\ dirs' = dirs \cup {body.task}
    ELSE /\ Goto(r, "mkdir")
         /\ UNCHANGED dirs

\* if task.secret != STUDENT_SECRET: raise HTTPException(403)
Authenticate(r, body) ==
    /\ IF body.secret # STUDENT_SECRET
       THEN Finish(r, HttpError(403, "Invalid secret"))
       ELSE Goto(r, "mkdir")
    /\ UNCHANGED dirs

\* A POST /api arrives with a body that validates as TaskRequest, and the
\* handler compares its secret.
Accept(r, bodies) ==
    /\ pc[r] = "idle"
    /\ \A q \in Reqs : q < r => pc[q] # "idle"   \* requests are numbered as they arrive
    /\ \E body \in bodies :
          /\ req' = [req EXCEPT ![r] = body]
          /\ retry' = [retry EXCEPT ![r] =
                \E q \in Reqs : Succeeded(q) /\ req[q].task = body.task]
          /\ Authenticate(r, body)
    /\ UNCHANGED <<local, trace, files, repo, parent, remote, callbacks>>

\* Requests that carry no attachment.
BareRequest == {body \in TaskRequest(MaxAtt) : body.attachments = <<>>}

Receive(r) == Accept(r, BareRequest)

\* The same arrival, of requests with attachments.
ReceiveAttach(r) == Accept(r, TaskRequest(MaxAtt))

\* The same arrival when the service handles a single request.
ReceiveSingle(r) == Accept(r, TaskRequest(MaxAttSingle))

\* Variant: os.makedirs(folder) without exist_ok raises on an existing folder.
MakeWorkspaceNoExistOk(r) ==
    /\ pc[r] = "mkdir"
    /\ IF req[r].task \in dirs
       THEN /\ Finish(r, Unhandled)
            /\ UNCHANGED dirs
       ELSE /\ dirs' = dirs \cup {req[r].task}
            /\ Goto(r, "att")
    /\ UNCHANGED <<req, retry, local, trace, files, repo, parent, remote, callbacks>>

\* os.makedirs(folder, exist_ok=True)
MakeWorkspace(r) ==
    /\ pc[r] = "mkdir"
    /\ dirs' = dirs \cup {req[r].task}
    /\ Goto(r, "att")
    /\ UNCHANGED <<req, retry, local, trace, files, repo, parent, remote, callbacks>>

\* One iteration of: for att in task.attachments
SaveAttachment(r) ==
    /\ pc[r] = "att"
    /\ idx[r] <= Len(req[r].attachments)
    /\ LET att == req[r].attachments[idx[r]]
           dir == JoinDir(req[r].task, att.name)
           content == DecodeUrl(att.url)
       IN IF ~StartsWithData(att.url)
          THEN /\ Goto(r, "att")
               /\ idx' = [idx EXCEPT ![r] = @ + 1]
               /\ UNCHANGED <<files, trace, attWritten>>
          ELSE IF content = <<"!error">> \/ dir \notin dirs
          THEN \* b64decode, split(...)[1] or open() raises
               /\ Finish(r, Unhandled)
               /\ UNCHANGED <<idx, files, trace, attWritten>>
          ELSE /\ files' = [files EXCEPT ![dir][att.name.base] = File(content, r)]
               /\ attWritten' = [attWritten EXCEPT ![r] = @ \cup {att.name}]
               /\ Log(r, Ev("attachment", 0, FALSE))
               /\ idx' = [idx EXCEPT ![r] = @ + 1]
               /\ Goto(r, "att")
    /\ UNCHANGED <<req, retry, prompt, code, commit_sha, dirs, repo, parent, remote, callbacks>>

\* What call_llm can return.
Codes == {"<button>Hi</button>"}

LlmPrompt(r) == [brief |-> req[r].brief, appended |-> <<>>]

Artifacts(r, c) ==
    LET t == req[r].task
    IN [files EXCEPT
          ![t]["index.html"] = File(<<c>>, r),
          ![t]["README.md"] = File(ReadmeText(t, req[r].brief, Checks), r),
          ![t]["LICENSE"] = File(LicenseText, r)]

\* code = call_llm(task.brief); then index.html, README.md and LICENSE are
\* written into the workspace.
Generate(r) ==
    /\ pc[r] = "att"
    /\ idx[r] > Len(req[r].attachments)
    /\ prompt' = [prompt EXCEPT ![r] = LlmPrompt(r)]
    /\ \/ \E c \in Codes :
             /\ code' = [code EXCEPT ![r] = c]
             /\ files' = Artifacts(r, c)
             /\ trace' = [trace EXCEPT ![r] =
                   @ \o <<Ev("llm", 200, FALSE), Ev("artifacts", 0, FALSE)>>]
             /\ Goto(r, "git")
       \/ \* the model service or the transport fails
          /\ Log(r, Ev("llm", 0, FALSE))
          /\ Finish(r, Unhandled)
          /\ UNCHANGED <<code, files>>
    /\ UNCHANGED <<req, retry, idx, commit_sha, attWritten, dirs, repo, parent, remote, callbacks>>

WorkTree(t) == [n \in Names |-> files[t][n].data]

\* git init; git config; git add .; git commit -m "Round n commit".  The
\* commit fails when nothing changed since HEAD; no return code is read.
GitCommit(r) ==
    /\ pc[r] = "git"
    /\ LET t == req[r].task
           changed == WorkTree(t) # repo[t].tree
       IN /\ repo' = [repo EXCEPT ![t] =
                 IF changed
                 THEN [@ EXCEPT !.inited = TRUE, !.head = r, !.tree = WorkTree(t)]
                 ELSE [@ EXCEPT !.inited = TRUE]]
          /\ parent' = IF changed THEN [parent EXCEPT ![r] = repo[t].head] ELSE parent
          /\ Log(r, Ev("commit", IF changed THEN 0 ELSE 1, FALSE))
    /\ Goto(r, "create")
    /\ UNCHANGED <<req, retry, local, dirs, files, remote, callbacks>>

\* What POST /user/repos can answer: flag says the body holds "name already exists".
CreateResponses(rm) ==
    (IF rm.exists THEN {Ev("create", 422, TRUE)} ELSE {Ev("create", 201, FALSE)})
    \cup {Ev("create", 307, FALSE), Ev("create", 422, FALSE)}

\* Variant: no tolerance of "name already exists".
CreateFatalStrict(response) == response.status >= 300

\* The handler's reading of the create-repository response.
CreateFatal(response) ==
    IF response.status = 422 /\ response.flag THEN FALSE
    ELSE response.status >= 300

CreateRepo(r) ==
    /\ pc[r] = "create"
    /\ LET t == req[r].task
       IN \E response \in CreateResponses(remote[t]) :
             /\ Log(r, response)
             /\ remote' = IF response.status = 201
                          THEN [remote EXCEPT ![t].exists = TRUE]
                          ELSE remote
             /\ IF CreateFatal(response)
                THEN Finish(r, HttpError(500, "GitHub repo creation failed"))
                ELSE Goto(r, "push")
    /\ UNCHANGED <<req, retry, local, disk, callbacks>>

RECURSIVE Ancestor(_, _)
\* Commit a is commit b or one of its ancestors.
Ancestor(a, b) ==
    IF b = 0 THEN FALSE
    ELSE IF a = b THEN TRUE
    ELSE Ancestor(a, parent[b])

\* The hosting platform accepts a push of HEAD to main (fast-forward only).
PushAccepted(t) ==
    /\ remote[t].exists
    /\ repo[t].head # 0
    /\ remote[t].main = 0 \/ Ancestor(remote[t].main, repo[t].head)

\* Variant: the pages call is skipped after the push.
AfterPushSkipPages(r, rc) == Goto(r, "notify")

\* What the handler does with the return code of git push.
AfterPush(r, rc) == Goto(r, "pages")

\* git remote add origin; git branch -M main; git push -u origin main
GitPush(r) ==
    /\ pc[r] = "push"
    /\ LET t == req[r].task
       IN /\ repo' = [repo EXCEPT ![t].origin = TRUE]
          /\ \/ /\ PushAccepted(t)
                /\ remote' = [remote EXCEPT ![t].main = repo[t].head]
                /\ Log(r, Ev("push", 0, FALSE))
                /\ AfterPush(r, 0)
             \/ \* rejected, or the network or the credentials fail
                /\ UNCHANGED remote
                /\ Log(r, Ev("push", 1, FALSE))
                /\ AfterPush(r, 1)
    /\ UNCHANGED <<req, retry, local, dirs, files, parent, callbacks>>

\* What POST /repos/<user>/<task>/pages can answer: flag says the body holds
\* "already enabled".
PagesResponses(rm) ==
    (IF ~rm.exists THEN {Ev("pages", 404, FALSE)}
     ELSE IF rm.pages THEN {Ev("pages", 409, TRUE)}
     ELSE IF rm.main = 0 THEN {Ev("pages", 422, FALSE)}
     ELSE {Ev("pages", 201, FALSE)})
    \cup {Ev("pages", 401, FALSE)}

\* The handler's reading of the pages response.
PagesFatal(response) == response.status >= 300 /\ ~response.flag

EnablePages(r) ==
    /\ pc[r] = "pages"
    /\ LET t == req[r].task
       IN \E response \in PagesResponses(remote[t]) :
             /\ Log(r, response)
             /\ remote' = IF response.status = 201
                          THEN [remote EXCEPT ![t].pages = TRUE]
                          ELSE remote
             /\ IF PagesFatal(response)
                THEN Finish(r, HttpError(500, "GitHub Pages setup failed"))
                ELSE Goto(r, "notify")
    /\ UNCHANGED <<req, retry, local, disk, callbacks>>

NotifyStatuses == {200, 201, 500}

Payload(r, head) ==
    [req |-> r, task |-> req[r].task, repo_url |-> req[r].task,
     commit_sha |-> head, pages_url |-> req[r].task]

\* Variant: any status below 300 counts as delivered.
NotifyResultAny2xx(r, status) ==
    IF status >= 300
    THEN HttpError(500, "Evaluation notification failed")
    ELSE [status |-> 200, detail |-> "done"]

\* The handler's reading of the callback's answer.
NotifyResult(r, status) ==
    IF status # 200
    THEN HttpError(500, "Evaluation notification failed")
    ELSE [status |-> 200, detail |-> "done"]

\* git rev-parse HEAD, then the POST to evaluation_url and the response.
Notify(r) ==
    /\ pc[r] = "notify"
    /\ LET t == req[r].task
       IN IF repo[t].head = 0
          THEN \* check_output raises CalledProcessError
               /\ Finish(r, Unhandled)
               /\ UNCHANGED <<commit_sha, callbacks, trace>>
          ELSE /\ commit_sha' = [commit_sha EXCEPT ![r] = repo[t].head]
               /\ callbacks' = callbacks \cup {Payload(r, repo[t].head)}
               /\ \E status \in NotifyStatuses :
                     /\ Log(r, Ev("callback", status, FALSE))
                     /\ Finish(r, NotifyResult(r, status))
    /\ UNCHANGED <<req, retry, idx, prompt, code, attWritten, disk, remote>>

\* The statements of handle_task after the secret is accepted.
Step(r) ==
    \/ MakeWorkspace(r)
    \/ SaveAttachment(r)
    \/ Generate(r)
    \/ GitCommit(r)
    \/ CreateRepo(r)
    \/ GitPush(r)
    \/ EnablePages(r)
    \/ Notify(r)

\* The statements that run when no request carries an attachment.
StepBare(r) ==
    \/ MakeWorkspace(r)
    \/ Generate(r)
    \/ GitCommit(r)
    \/ CreateRepo(r)
    \/ GitPush(r)
    \/ EnablePages(r)
    \/ Notify(r)

\* Requests without attachments, any number in flight, statements interleaved.
Next == \E r \in Reqs : Receive(r) \/ StepBare(r)

Spec == Init /\ [][Next]_vars

\* Requests with attachments, in flight together.
NextAttach == \E r \in Reqs : ReceiveAttach(r) \/ Step(r)

SpecAttach == Init /\ [][NextAttach]_vars

\* One request, handled alone.
NextSingle == \E r \in {1} : ReceiveSingle(r) \/ Step(r)

SpecSingle == Init /\ [][NextSingle]_vars

\* ---------------------------------------------------------------- properties
Authorized(r) == pc[r] # "idle" /\ req[r].secret = STUDENT_SECRET
WrongSecret(r) == pc[r] # "idle" /\ req[r].secret # STUDENT_SECRET
Events(r) == {trace[r][i] : i \in 1..Len(trace[r])}
Last(r) == trace[r][Len(trace[r])]
Done200 == [status |-> 200, detail |-> "done"]
IsInline(url) == url.scheme = "data:"

\* C1 -----------------------------------------------------------------
C1_Rejected ==
    \A r \in Reqs : WrongSecret(r) =>
        /\ pc[r] = "done"
        /\ resp[r] = HttpError(403, "Invalid secret")
        /\ trace[r] = <<>>
        /\ attWritten[r] = {}
        /\ \A t \in Tasks, n \in Names : files[t][n].by # r
        /\ \A p \in callbacks : p.req # r

C1_RejectingStep ==
    \A r \in Reqs :
        (pc[r] = "idle" /\ pc'[r] = "done" /\ req'[r].secret # STUDENT_SECRET) =>
            UNCHANGED <<dirs, files, repo, parent, remote, callbacks>>

\* C1: a request whose secret differs from the configured one is answered 403
\* and performs no external action: it writes no file, calls neither the
\* model, git, the hosting API nor the callback, and the step that rejects it
\* leaves workspace, repositories and callback log as they were.
C1_WrongSecretNoEffects == []C1_Rejected /\ [][C1_RejectingStep]_vars

\* A rejected request, while another request is in the middle of its pipeline.
C1_Witness ==
    \E r, q \in Reqs :
        /\ WrongSecret(r) /\ pc[r] = "done" /\ resp[r].status = 403
        /\ Authorized(q) /\ pc[q] = "pages"

\* C2 -----------------------------------------------------------------
\* C2: after a git push that ended non-zero the request performs no further
\* external action (no pages call, no callback) and is not answered 200.
C2_PushFailureAborts ==
    \A r \in Reqs : \A i \in 1..Len(trace[r]) :
        trace[r][i] = Ev("push", 1, FALSE) =>
            /\ i = Len(trace[r])
            /\ resp[r].status # 200

\* C3 -----------------------------------------------------------------
\* C3: a 422 "name already exists" answer to the create call and an "already
\* enabled" failure answer to the pages call let the request go on to the next
\* step (push, callback); any other answer with status >= 300 to either call
\* ends the request with a 500 naming the stage, and no later step runs.
C3_Tolerance ==
    \A r \in Reqs : \A i \in 1..Len(trace[r]) :
        LET e == trace[r][i]
            last == i = Len(trace[r])
        IN /\ (e.act = "create" /\ e.status = 422 /\ e.flag) =>
                 IF last THEN pc[r] = "push" ELSE trace[r][i + 1].act = "push"
           /\ (e.act = "create" /\ e.status >= 300 /\ ~(e.status = 422 /\ e.flag)) =>
                 /\ last /\ pc[r] = "done"
                 /\ resp[r] = HttpError(500, "GitHub repo creation failed")
           /\ (e.act = "pages" /\ e.status >= 300 /\ e.flag) =>
                 IF last THEN pc[r] = "notify" ELSE trace[r][i + 1].act = "callback"
           /\ (e.act = "pages" /\ e.status >= 300 /\ ~e.flag) =>
                 /\ last /\ pc[r] = "done"
                 /\ resp[r] = HttpError(500, "GitHub Pages setup failed")

\* One request tolerated both answers and finished; another was aborted by a
\* fatal answer to the create call.
C3_Witness ==
    \E r, q \in Reqs :
        /\ Ev("create", 422, TRUE) \in Events(r)
        /\ Ev("pages", 409, TRUE) \in Events(r)
        /\ pc[r] = "done" /\ Last(r).act = "callback"
        /\ pc[q] = "done" /\ trace[q] # <<>> /\ Last(q) = Ev("create", 422, FALSE)

\* C4 -----------------------------------------------------------------
C4_Failed ==
    \A r \in Reqs : \A i \in 1..Len(trace[r]) :
        LET e == trace[r][i]
        IN (e.act = "callback" /\ e.status \notin {0, 200}) =>
              /\ i = Len(trace[r]) /\ pc[r] = "done"
              /\ resp[r] = HttpError(500, "Evaluation notification failed")
              /\ Cardinality({j \in 1..Len(trace[r]) : trace[r][j].act = "callback"}) = 1
              /\ Cardinality({p \in callbacks : p.req = r}) = 1

C4_NotifyStep ==
    \A r \in Reqs :
        (pc[r] = "notify" /\ pc'[r] = "done") =>
            UNCHANGED <<dirs, files, repo, parent, remote>>

\* C4: a callback answer other than 200 ends the request with the 500 that
\* names the notification stage; the callback was posted once, and the step
\* leaves the workspace, the commit, the remote branch and the pages setting
\* as they were.
C4_NotificationFailure == []C4_Failed /\ [][C4_NotifyStep]_vars

\* A request answered 500 for the notification whose commit is on the remote
\* main branch with pages enabled.
C4_Witness ==
    \E r \in Reqs :
        /\ resp[r] = HttpError(500, "Evaluation notification failed")
        /\ Ev("push", 0, FALSE) \in Events(r)
        /\ remote[req[r].task].main = commit_sha[r]
        /\ remote[req[r].task].pages

\* C5 -----------------------------------------------------------------
\* The answers the services give when nothing is out of order.
Nominal(e) ==
    CASE e.act = "llm" -> e.status = 200
      [] e.act = "create" -> e.status = 201 \/ (e.status = 422 /\ e.flag)
      [] e.act = "pages" -> e.status = 201 \/ (e.status = 409 /\ e.flag)
      [] e.act = "callback" -> e.status = 200
      [] OTHER -> TRUE

\* C5: a request that arrives after a request for the same task has succeeded
\* finds the workspace, the local repository, origin and the remote repository
\* in place; it is not failed by the create call's "name already exists"
\* answer, and when its attachments are saved and the services answer
\* nominally (callback 200) it posts the callback and is answered 200.
C5_RetrySucceeds ==
    \A r \in Reqs : (retry[r] /\ Authorized(r)) =>
        LET t == req[r].task
        IN /\ pc[r] # "mkdir" => t \in dirs
           /\ repo[t].inited /\ repo[t].origin /\ remote[t].exists
           /\ resp[r] = HttpError(500, "GitHub repo creation failed") =>
                 ~(Last(r).status = 422 /\ Last(r).flag)
           /\ (/\ pc[r] = "done"
               /\ idx[r] > Len(req[r].attachments)
               /\ \A e \in Events(r) : Nominal(e)) =>
                 /\ resp[r] = Done200
                 /\ Last(r) = Ev("callback", 200, FALSE)
                 /\ \E p \in callbacks : p.req = r /\ p.commit_sha = commit_sha[r]

\* A second request for a task, answered 200 although the repository existed
\* and nothing was left to commit.
C5_Witness ==
    \E r \in Reqs :
        /\ retry[r] /\ pc[r] = "done" /\ resp[r] = Done200
        /\ Ev("create", 422, TRUE) \in Events(r)
        /\ Ev("commit", 1, FALSE) \in Events(r)

\* C6 -----------------------------------------------------------------
\* float(row["sales"]) of a data.csv line, in tenths.
SalesTenths(line) ==
    CASE line = "10" -> 100
      [] line = "20.5" -> 205
      [] OTHER -> 0

RECURSIVE SumSales(_, _)
SumSales(lines, i) ==
    IF i > Len(lines) THEN 0 ELSE SalesTenths(lines[i]) + SumSales(lines, i + 1)

\* C6: when the request's attachments put a data.csv into the workspace, the
\* prompt handed to the generator is the brief with the sum of the sales
\* column appended; without a data.csv it is the brief alone.
C6_BriefAugmented ==
    \A r \in Reqs : (Authorized(r) /\ \E e \in Events(r) : e.act = "llm") =>
        LET csv == files[req[r].task]["data.csv"].data
        IN /\ prompt[r].brief = req[r].brief
           /\ prompt[r].appended =
                 IF PlainName("data.csv") \in attWritten[r]
                 THEN <<SumSales(csv, 2)>>
                 ELSE <<>>

\* C7 -----------------------------------------------------------------
InlineNames(r) ==
    {req[r].attachments[i].name :
        i \in {j \in 1..Len(req[r].attachments) : IsInline(req[r].attachments[j].url)}}

LoopOver(r) ==
    /\ Authorized(r)
    /\ pc[r] # "mkdir"
    /\ pc[r] = "att" => idx[r] > Len(req[r].attachments)

\* An attachment that is not inline is skipped: no file, no error.
C7_OthersSkipped ==
    \A r \in Reqs : Authorized(r) =>
        /\ attWritten[r] \subseteq InlineNames(r)
        /\ \A i \in 1..Len(req[r].attachments) :
              LET a == req[r].attachments[i]
              IN (~IsInline(a.url) /\ a.name \notin InlineNames(r)) =>
                    files[JoinDir(req[r].task, a.name)][a.name.base].by # r
        /\ (pc[r] = "done" /\ idx[r] <= Len(req[r].attachments)) =>
              IsInline(req[r].attachments[idx[r]].url)

\* C7 as stated: once attachment processing is over, the files it wrote are
\* exactly the names of the inline-data attachments.
C7_ExactlyInlineNames ==
    /\ C7_OthersSkipped
    /\ \A r \in Reqs : LoopOver(r) => attWritten[r] = InlineNames(r)

\* C7 amended: attachments that are not inline are skipped without a file or
\* an error; the files written are names of inline-data attachments, and are
\* all of them when the loop ran to its end (no payload failed to decode, no
\* file failed to open).
C7_InlineNamesWhenComplete ==
    /\ C7_OthersSkipped
    /\ \A r \in Reqs :
          (LoopOver(r) /\ idx[r] > Len(req[r].attachments)) =>
              attWritten[r] = InlineNames(r)

\* A request with one attachment of each kind, past its attachment loop.
C7_Witness ==
    \E r \in Reqs :
        /\ LoopOver(r) /\ idx[r] > Len(req[r].attachments)
        /\ Len(req[r].attachments) = 2
        /\ ~IsInline(req[r].attachments[1].url)
        /\ attWritten[r] = {PlainName("hello.txt")}
        /\ files[req[r].task]["logo.png"] = NoFile

\* C8 -----------------------------------------------------------------
\* C8: a file of workspace ./repos/<t> was written by a request for task t.
C8_Independent ==
    \A t \in Tasks, n \in Names :
        files[t][n].by # 0 => req[files[t][n].by].task = t

\* C9 -----------------------------------------------------------------
Rank(act) ==
    CASE act = "attachment" -> 0
      [] act = "llm" -> 1
      [] act = "artifacts" -> 2
      [] act = "commit" -> 3
      [] act = "create" -> 4
      [] act = "push" -> 5
      [] act = "pages" -> 6
      [] act = "callback" -> 7

\* C9: the external actions of a request are attachment writes, then model
\* call, artifact writes, commit, create call, push, pages call and callback,
\* in this order, none skipped and none twice; only an authorized request has
\* any; and the request is answered 200 only with a callback answered 200 as
\* its last action.
C9_FixedOrder ==
    \A r \in Reqs :
        LET tr == trace[r]
        IN /\ tr # <<>> => Authorized(r) /\ Rank(tr[1].act) \in {0, 1}
           /\ \A i \in 1..(Len(tr) - 1) :
                 LET a == Rank(tr[i].act)
                     b == Rank(tr[i + 1].act)
                 IN IF a = 0 THEN b \in {0, 1} ELSE b = a + 1
           /\ resp[r].status = 200 =>
                 /\ pc[r] = "done" /\ resp[r] = Done200
                 /\ tr # <<>> /\ Last(r) = Ev("callback", 200, FALSE)

\* A request answered 200 after all eight kinds of action.
C9_Witness ==
    \E r \in Reqs :
        /\ resp[r] = Done200
        /\ Len(trace[r]) = 8
        /\ trace[r][1].act = "attachment"

\* C10 ----------------------------------------------------------------
\* C10: the commit_sha of every callback posted is a commit of the local
\* history that the remote main branch contains.
C10_CallbackCommitPushed ==
    \A p \in callbacks :
        /\ Ancestor(p.commit_sha, repo[p.task].head)
        /\ Ancestor(p.commit_sha, remote[p.task].main)
====
